---- MODULE Spec2Model ----
(***************************************************************************)
(* State-machine model of app.py, the movie recommender: the catalog load  *)
(* (load_data), the poster lookup (fetch_poster) and the recommendation    *)
(* loop (recommend).                                                       *)
(*                                                                         *)
(* Python positions are kept 0-based, as in the source; a TLA+ sequence is *)
(* 1-based, so row i of a table is rows[i + 1].  The catalog is a pandas   *)
(* DataFrame carrying the default RangeIndex, so that the label returned   *)
(* by .index[0] is the position of the row.  Similarity scores are small   *)
(* integers.                                                               *)
(***************************************************************************)
EXTENDS Integers, Sequences, FiniteSets, TLC

VARIABLES
    movie_list_pkl,             \* the unpickled content of movie_list.pkl
    similarity_pkl,             \* the unpickled content of similarity.pkl
    tmdb,                       \* the provider: movie_id -> HTTP exchange
    pc,                         \* where the script is
    movies,                     \* the catalog returned by load_data
    similarity,                 \* the matrix returned by load_data
    reported,                   \* the last st.error message
    escaped,                    \* the exception that left the running code
    selected_movie,             \* recommend's argument `movie`
    index,                      \* recommend's local `index`
    distances,                  \* recommend's local `distances`
    k,                          \* iteration of the for loop over distances[1:30]
    recommended_movie_names,
    recommended_movie_posters,
    requests,                   \* movie ids requested from the provider, in order
    first_call                  \* the first invocation that returned, and its result

vars == << movie_list_pkl, similarity_pkl, tmdb, pc, movies, similarity,
           reported, escaped, selected_movie, index, distances, k,
           recommended_movie_names, recommended_movie_posters, requests,
           first_call >>

-----------------------------------------------------------------------------
(* Program constants. *)

Quota == 9                      \* if len(recommended_movie_names) >= 9
SliceStop == 30                 \* distances[1:30]

(* Bounds of the model. *)

SmallSize == 3                  \* rows of the exhaustively enumerated catalogs
LargeSize == 31                 \* rows of the catalogs that outgrow the slice
MaxScore == 2                   \* similarity scores range over 0..MaxScore

-----------------------------------------------------------------------------
(* Values. *)

None == "None"
NoIndex == 0 - 1
Unknown == "Unknown"
Required == <<"movie_id", "title", "tags">>

Range(s) == {s[n] : n \in DOMAIN s}
Abs(n) == IF n < 0 THEN -n ELSE n
Min(a, b) == IF a < b THEN a ELSE b

NoTable == [columns |-> <<>>, rows |-> <<>>]
NoCall == [movie |-> None, names |-> <<>>, posters |-> <<>>]

-----------------------------------------------------------------------------
(* pandas: the operations of a DataFrame the script uses. *)

\* {"movie_id", "title", "tags"}.issubset(movies_data.columns)
HasRequired(t) == Range(Required) \subseteq Range(t.columns)

\* the position of a column label, 0 when the table has no such column
ColumnPos(t, name) ==
    IF name \in Range(t.columns)
    THEN CHOOSE c \in DOMAIN t.columns :
            /\ t.columns[c] = name
            /\ \A b \in DOMAIN t.columns : t.columns[b] = name => c <= b
    ELSE 0

\* movies.iloc[i].<name>, for a position and a label the table has
Cell(t, i, name) == t.rows[i + 1][ColumnPos(t, name)]

\* a faulty variant: a title without a match resolves to the first row
MatchIndexOrFirst(t, movie) ==
    LET found == {i \in 0..(Len(t.rows) - 1) : Cell(t, i, "title") = movie}
    IN  IF found = {} THEN {0} \cap (0..(Len(t.rows) - 1)) ELSE found

\* movies[movies["title"] == movie].index : the positions of the matching rows
MatchIndex(t, movie) ==
    {i \in 0..(Len(t.rows) - 1) : Cell(t, i, "title") = movie}

\* .index[0] : the first match
FirstMatch(t, movie) ==
    CHOOSE i \in MatchIndex(t, movie) : \A j \in MatchIndex(t, movie) : i <= j

-----------------------------------------------------------------------------
(* load_data: the coercion of the unpickled catalog. *)

\* pd.DataFrame(movies_data, columns=[...]) succeeds on rows of three fields
Coercible(items) ==
    \A n \in DOMAIN items : items[n].kind = "row" /\ Len(items[n].fields) = 3

LoadOutcome(raw) ==
    IF raw.kind \in {"tuple", "list"}
    THEN IF Len(raw.items) = 2 /\ raw.items[1].kind = "DataFrame"
         THEN [outcome |-> "ok", table |-> raw.items[1].table,
               message |-> "none", exception |-> "none"]
         ELSE IF Coercible(raw.items)
         THEN [outcome |-> "ok",
               table |-> [columns |-> Required,
                          rows |-> [n \in DOMAIN raw.items |-> raw.items[n].fields]],
               message |-> "none", exception |-> "none"]
         ELSE [outcome |-> "stop", table |-> NoTable,
               message |-> "Could not normalize movie_list.pkl format.",
               exception |-> "none"]
    ELSE IF raw.kind = "DataFrame"
    THEN IF HasRequired(raw.table)
         THEN [outcome |-> "ok", table |-> raw.table,
               message |-> "none", exception |-> "none"]
         ELSE IF Len(raw.table.columns) = Len(Required)
         THEN [outcome |-> "ok",
               table |-> [columns |-> Required, rows |-> raw.table.rows],
               message |-> "none", exception |-> "none"]
         ELSE [outcome |-> "raise", table |-> NoTable,
               message |-> "none", exception |-> "ValueError"]
    ELSE [outcome |-> "stop", table |-> NoTable,
          message |-> "Unexpected format for movie_list.pkl.",
          exception |-> "none"]

-----------------------------------------------------------------------------
(* fetch_poster: one exchange with the provider. *)

\* the classes `except Exception` catches
Exceptions ==
    {"ConnectionError", "Timeout", "HTTPError", "JSONDecodeError", "AttributeError"}

\* a faulty variant: only the transport errors are caught
CaughtTransportOnly(exc) == exc \in {"ConnectionError", "Timeout"}

\* except Exception:
Caught(exc) == exc \in Exceptions

\* f"https://image.tmdb.org/t/p/w500/{poster_path}"
PosterUrl(poster_path) == "https://image.tmdb.org/t/p/w500/" \o poster_path

\* if poster_path: (an absent field reads None, and "" is falsy too)
Truthy(poster_path) == poster_path # None /\ poster_path # ""

\* the exception raised inside the try block, "none" when it runs through
RaisedInTry(exchange) ==
    IF exchange.get # "ok" THEN exchange.get                    \* requests.get
    ELSE IF exchange.status >= 400 THEN "HTTPError"             \* raise_for_status
    ELSE IF exchange.body = "garbage" THEN "JSONDecodeError"    \* response.json
    ELSE IF exchange.body = "array" THEN "AttributeError"       \* data.get
    ELSE "none"

fetch_poster(exchange) ==
    LET exc == RaisedInTry(exchange)
    IN  IF exc # "none"
        THEN IF Caught(exc)
             THEN [raised |-> "none", value |-> None]
             ELSE [raised |-> exc, value |-> None]
        ELSE IF Truthy(exchange.poster_path)
             THEN [raised |-> "none", value |-> PosterUrl(exchange.poster_path)]
             ELSE [raised |-> "none", value |-> None]

-----------------------------------------------------------------------------
(* recommend: the ranking. *)

\* list(enumerate(similarity[index])) : pairs <<position, score>>
Enumerate(row) == [n \in 1..Len(row) |-> <<n - 1, row[n]>>]

\* a faulty variant: an insertion in front of the equal keys, the order that sorting
\* ascending and reversing the list gives
RECURSIVE InsertDescUnstable(_, _)
InsertDescUnstable(sorted, x) ==
    IF sorted = <<>> THEN <<x>>
    ELSE IF Head(sorted)[2] > x[2]
         THEN <<Head(sorted)>> \o InsertDescUnstable(Tail(sorted), x)
         ELSE <<x>> \o sorted

\* one insertion of a stable descending sort: x goes behind every element
\* whose key is at least its own
RECURSIVE InsertDesc(_, _)
InsertDesc(sorted, x) ==
    IF sorted = <<>> THEN <<x>>
    ELSE IF Head(sorted)[2] >= x[2]
         THEN <<Head(sorted)>> \o InsertDesc(Tail(sorted), x)
         ELSE <<x>> \o sorted

RECURSIVE SortFrom(_, _, _)
SortFrom(pairs, n, sorted) ==
    IF n > Len(pairs) THEN sorted
    ELSE SortFrom(pairs, n + 1, InsertDesc(sorted, pairs[n]))

\* sorted(pairs, reverse=True, key=lambda x: x[1]) : descending by score,
\* equal scores in their original order
SortedDesc(pairs) == SortFrom(pairs, 1, <<>>)

\* a faulty variant: the slice distances[0:30], which keeps the first rank
SliceFromFirst(d) == SubSeq(d, 1, Min(SliceStop, Len(d)))

\* a faulty variant: the slice distances[1:], which has no end
SliceToEnd(d) == SubSeq(d, 2, Len(d))

\* distances[1:30]
Scanned(d) == SubSeq(d, 2, Min(SliceStop, Len(d)))

\* a faulty variant: the test > 9
QuotaExceeded(names) == Len(names) > Quota

\* a faulty variant: the loop without its break
NeverBreak(names) == FALSE

\* if len(recommended_movie_names) >= 9: break
QuotaReached(names) == Len(names) >= Quota

\* a faulty variant: lists that outlive the call
StaleNames == recommended_movie_names

\* recommended_movie_names = []
FreshNames == <<>>

\* recommended_movie_posters = []
FreshPosters == <<>>

-----------------------------------------------------------------------------
(* The inputs: the two pickles and the provider's answers. *)

MovieId(i) == 100 + i
Title(i) == "T" \o ToString(i)
Ids(n) == {MovieId(i) : i \in 0..(n - 1)}

\* n rows (movie_id, title, tags); with dup the second row repeats the first title
CatalogRows(n, dup) ==
    [r \in 1..n |->
        <<MovieId(r - 1),
          IF dup /\ r = 2 THEN Title(0) ELSE Title(r - 1),
          "tags">>]

Frame(columns, rows) == [kind |-> "DataFrame", table |-> [columns |-> columns, rows |-> rows]]
RowItems(rows) == [n \in DOMAIN rows |-> [kind |-> "row", fields |-> rows[n]]]
Matrix == [kind |-> "ndarray"]

\* a symmetric matrix whose entry depends on the distance of the two rows
Toeplitz(m, base) == [i \in 1..m |-> [j \in 1..m |-> base[Abs(i - j) + 1]]]

\* self-similarity strictly maximal and the other scores falling in pairs of
\* equal scores; every score equal; self-similarity minimal
NamedBases(m) ==
    {[d \in 1..m |-> IF d = 1 THEN m ELSE (m - d) \div 2],
     [d \in 1..m |-> 1],
     [d \in 1..m |-> d]}

\* every matrix of the catalog's size, and some of a size off by one
Matrices(n) ==
    {Toeplitz(n, b) : b \in [1..n -> 0..MaxScore]}
    \cup UNION {{Toeplitz(m, b) : b \in NamedBases(m)} : m \in {n - 1, n + 1} \cap Nat}

\* the provider's exchanges
OkExchange(id) ==
    [get |-> "ok", status |-> 200, body |-> "object",
     poster_path |-> "/" \o ToString(id) \o ".jpg"]

Failures ==
    << [get |-> "ConnectionError", status |-> 0, body |-> "", poster_path |-> None],
       [get |-> "Timeout", status |-> 0, body |-> "", poster_path |-> None],
       [get |-> "ok", status |-> 404, body |-> "object", poster_path |-> None],
       [get |-> "ok", status |-> 200, body |-> "garbage", poster_path |-> None],
       [get |-> "ok", status |-> 200, body |-> "array", poster_path |-> None],
       [get |-> "ok", status |-> 200, body |-> "object", poster_path |-> None],
       [get |-> "ok", status |-> 200, body |-> "object", poster_path |-> ""] >>

Provider(ids, good) ==
    [id \in ids |->
        IF id \in good THEN OkExchange(id) ELSE Failures[(id % Len(Failures)) + 1]]

Input(raw, matrix, provider) == [raw |-> raw, matrix |-> matrix, provider |-> provider]

\* small catalogs: every matrix, every set of movies with a poster; and the
\* same with a repeated title
SmallInputs ==
    UNION {{Input(Frame(Required, CatalogRows(n, FALSE)), m, Provider(Ids(n), good)) :
                m \in Matrices(n), good \in SUBSET Ids(n)} :
           n \in 0..SmallSize}
    \cup
    UNION {{Input(Frame(Required, CatalogRows(n, TRUE)), Toeplitz(n, b),
                  Provider(Ids(n), good)) :
                b \in NamedBases(n), good \in SUBSET Ids(n)} :
           n \in 2..SmallSize}

\* a catalog longer than the slice: the posters missing below or above a row,
\* or on all rows but every second or third
LargeGood(n) ==
    {{MovieId(i) : i \in 0..(c - 1)} : c \in 0..n}
    \cup {{MovieId(i) : i \in c..(n - 1)} : c \in 0..n}
    \cup {{MovieId(i) : i \in {j \in 0..(n - 1) : j % d = 0}} : d \in {2, 3}}

LargeInputs ==
    {Input(Frame(Required, CatalogRows(LargeSize, FALSE)), Toeplitz(LargeSize, b),
           Provider(Ids(LargeSize), good)) :
        b \in NamedBases(LargeSize), good \in LargeGood(LargeSize)}

\* the catalog A, B, C, D whose first row of scores is 1.0, 0.9, 0.2, 0.5, in
\* every shape load_data tells apart
ExampleRows == CatalogRows(4, FALSE)
ExampleMatrix == Toeplitz(4, <<10, 9, 2, 5>>)

ExampleShapes ==
    { Frame(Required, ExampleRows),
      [kind |-> "tuple", items |-> <<Frame(Required, ExampleRows), Matrix>>],
      [kind |-> "list", items |-> RowItems(ExampleRows)],
      Frame(<<"id", "name", "keywords">>, ExampleRows),
      Frame(<<"movie_id", "title">>, [n \in 1..4 |-> SubSeq(ExampleRows[n], 1, 2)]),
      [kind |-> "tuple",
       items |-> <<Frame(<<"movie_id", "name", "tags">>, ExampleRows), Matrix>>],
      [kind |-> "tuple",
       items |-> <<Frame(<<"id", "title", "tags">>, ExampleRows), Matrix>>],
      [kind |-> "list",
       items |-> RowItems([n \in 1..4 |-> SubSeq(ExampleRows[n], 1, 2)])],
      [kind |-> "dict"] }

ExampleInputs ==
    {Input(raw, ExampleMatrix, Provider(Ids(4), good)) :
        raw \in ExampleShapes, good \in SUBSET Ids(4)}

Inputs == SmallInputs \cup LargeInputs \cup ExampleInputs

Init ==
    /\ \E input \in Inputs :
        /\ movie_list_pkl = input.raw
        /\ similarity_pkl = input.matrix
        /\ tmdb = input.provider
    /\ pc = "boot"
    /\ movies = NoTable
    /\ similarity = <<>>
    /\ reported = "none"
    /\ escaped = "none"
    /\ selected_movie = None
    /\ index = NoIndex
    /\ distances = <<>>
    /\ k = 0
    /\ recommended_movie_names = <<>>
    /\ recommended_movie_posters = <<>>
    /\ requests = <<>>
    /\ first_call = NoCall

-----------------------------------------------------------------------------
(* The script: load, selection box, and one action per step of recommend. *)

\* movies, similarity = load_data()
LoadData ==
    /\ pc = "boot"
    /\ LET out == LoadOutcome(movie_list_pkl)
       IN  /\ movies' = out.table
           /\ similarity' = IF out.outcome = "ok" THEN similarity_pkl ELSE <<>>
           /\ reported' = out.message
           /\ escaped' = out.exception
           /\ pc' = IF out.outcome = "ok" THEN "loaded"
                    ELSE IF out.outcome = "stop" THEN "halted"
                    ELSE "crashed"
    /\ UNCHANGED << movie_list_pkl, similarity_pkl, tmdb, selected_movie, index,
                    distances, k, recommended_movie_names,
                    recommended_movie_posters, requests, first_call >>

\* movie_list = movies["title"].values
MovieList ==
    /\ pc = "loaded"
    /\ IF "title" \in Range(movies.columns)
       THEN pc' = "idle" /\ escaped' = "none"
       ELSE pc' = "crashed" /\ escaped' = "KeyError"
    /\ UNCHANGED << movie_list_pkl, similarity_pkl, tmdb, movies, similarity,
                    reported, selected_movie, index, distances, k,
                    recommended_movie_names, recommended_movie_posters,
                    requests, first_call >>

\* the titles a request selects: those of the first and of the last row, and
\* one title no row has
Selectable(t) ==
    {Cell(t, i, "title") :
        i \in {j \in 0..(Len(t.rows) - 1) : j = 0 \/ j = Len(t.rows) - 1}}
    \cup {Unknown}

\* what the first returning invocation leaves for the later ones to compare with
Remember(movie, names, posters) ==
    IF first_call = NoCall
    THEN [movie |-> movie, names |-> names, posters |-> posters]
    ELSE first_call

\* recommend(movie, movies, similarity), up to the head of the for loop
Recommend(movie) ==
    /\ pc \in {"idle", "returned", "failed"}
    /\ selected_movie' = movie
    /\ requests' = <<>>
    /\ IF MatchIndex(movies, movie) = {}
       THEN \* except IndexError: st.error(...); return [], []
            /\ reported' = "Selected movie not found in dataset."
            /\ escaped' = "none"
            /\ index' = NoIndex
            /\ distances' = <<>>
            /\ k' = 0
            /\ recommended_movie_names' = <<>>
            /\ recommended_movie_posters' = <<>>
            /\ pc' = "returned"
            /\ first_call' = Remember(movie, <<>>, <<>>)
       ELSE /\ reported' = "none"
            /\ index' = FirstMatch(movies, movie)
            /\ first_call' = first_call
            /\ IF index' >= Len(similarity)
               THEN \* similarity[index] is out of range
                    /\ escaped' = "IndexError"
                    /\ distances' = <<>>
                    /\ k' = 0
                    /\ recommended_movie_names' = <<>>
                    /\ recommended_movie_posters' = <<>>
                    /\ pc' = "failed"
               ELSE /\ escaped' = "none"
                    /\ distances' = SortedDesc(Enumerate(similarity[index' + 1]))
                    /\ k' = 1
                    /\ recommended_movie_names' = FreshNames
                    /\ recommended_movie_posters' = FreshPosters
                    /\ pc' = "loop"
    /\ UNCHANGED << movie_list_pkl, similarity_pkl, tmdb, movies, similarity >>

\* one iteration of: for i in distances[1:30]
Step ==
    /\ pc = "loop"
    /\ k <= Len(Scanned(distances))
    /\ LET i == Scanned(distances)[k]
       IN  IF i[1] >= Len(movies.rows)
           THEN \* movies.iloc[i[0]] is out of range
                /\ escaped' = "IndexError"
                /\ pc' = "failed"
                /\ UNCHANGED << k, recommended_movie_names,
                                recommended_movie_posters, requests, first_call >>
           ELSE IF "movie_id" \notin Range(movies.columns)
           THEN \* the row has no attribute movie_id
                /\ escaped' = "AttributeError"
                /\ pc' = "failed"
                /\ UNCHANGED << k, recommended_movie_names,
                                recommended_movie_posters, requests, first_call >>
           ELSE LET movie_id == Cell(movies, i[1], "movie_id")
                    got == fetch_poster(tmdb[movie_id])
                    names == IF got.value # None
                             THEN Append(recommended_movie_names,
                                         Cell(movies, i[1], "title"))
                             ELSE recommended_movie_names
                    posters == IF got.value # None
                               THEN Append(recommended_movie_posters, got.value)
                               ELSE recommended_movie_posters
                IN  /\ requests' = Append(requests, movie_id)
                    /\ IF got.raised # "none"
                       THEN /\ escaped' = got.raised
                            /\ pc' = "failed"
                            /\ UNCHANGED << k, recommended_movie_names,
                                            recommended_movie_posters, first_call >>
                       ELSE /\ escaped' = "none"
                            /\ recommended_movie_names' = names
                            /\ recommended_movie_posters' = posters
                            /\ IF QuotaReached(names)
                               THEN /\ pc' = "returned"
                                    /\ k' = k
                                    /\ first_call' =
                                         Remember(selected_movie, names, posters)
                               ELSE /\ pc' = "loop"
                                    /\ k' = k + 1
                                    /\ first_call' = first_call
    /\ UNCHANGED << movie_list_pkl, similarity_pkl, tmdb, movies, similarity,
                    reported, selected_movie, index, distances >>

\* the slice is exhausted: return recommended_movie_names, recommended_movie_posters
Return ==
    /\ pc = "loop"
    /\ k > Len(Scanned(distances))
    /\ pc' = "returned"
    /\ first_call' = Remember(selected_movie, recommended_movie_names,
                              recommended_movie_posters)
    /\ UNCHANGED << movie_list_pkl, similarity_pkl, tmdb, movies, similarity,
                    reported, escaped, selected_movie, index, distances, k,
                    recommended_movie_names, recommended_movie_posters, requests >>

\* if st.button(...): recommend(selected_movie, movies, similarity)
Button ==
    /\ pc \in {"idle", "returned", "failed"}
    /\ \E movie \in Selectable(movies) : Recommend(movie)

Next ==
    \/ LoadData
    \/ MovieList
    \/ Button
    \/ Step
    \/ Return

Spec == Init /\ [][Next]_vars

-----------------------------------------------------------------------------
(* Vocabulary of the properties, stated without the operators of the loop. *)

ScanLimit == SliceStop - 1
NotFoundMessage == "Selected movie not found in dataset."
SchemaMessages ==
    {"Could not normalize movie_list.pkl format.",
     "Unexpected format for movie_list.pkl."}

Names == recommended_movie_names
Posters == recommended_movie_posters
InRequest == pc \in {"loop", "returned", "failed"}
Rows(t) == 0..(Len(t.rows) - 1)
Titles(t) == {Cell(t, i, "title") : i \in Rows(t)}
IsPrefix(s, t) == Len(s) <= Len(t) /\ SubSeq(t, 1, Len(s)) = s

\* the row of scores the request ranks
Scores == similarity[index + 1]
ScoreOf(j) == Scores[j + 1]

\* the rank of column j: behind the greater scores and the equal scores of
\* the earlier columns
RankOf(scores, j) ==
    1 + Cardinality({i \in 0..(Len(scores) - 1) :
            \/ scores[i + 1] > scores[j + 1]
            \/ scores[i + 1] = scores[j + 1] /\ i < j})
RowAtRank(scores, r) == CHOOSE j \in 0..(Len(scores) - 1) : RankOf(scores, j) = r
ScannedRanks(scores) == 2..Min(ScanLimit + 1, Len(scores))

\* the provider answers with a usable poster path
Usable(exchange) ==
    /\ exchange.get = "ok"
    /\ exchange.status \in 200..299
    /\ exchange.body = "object"
    /\ exchange.poster_path \notin {None, ""}
HasAsset(j) ==
    /\ j \in Rows(movies)
    /\ Usable(tmdb[Cell(movies, j, "movie_id")])
AssetUrl(j) ==
    "https://image.tmdb.org/t/p/w500/" \o tmdb[Cell(movies, j, "movie_id")].poster_path

\* the catalog row of a movie id
RowOfId(id) == CHOOSE j \in Rows(movies) : Cell(movies, j, "movie_id") = id

\* the catalog row an accepted entry came from, told by its poster
RowOfEntry(n) == CHOOSE j \in Rows(movies) : HasAsset(j) /\ AssetUrl(j) = Posters[n]

\* catalog and matrix agree in size and no score of a row exceeds its diagonal
ValidCatalog ==
    /\ Len(similarity) = Len(movies.rows)
    /\ \A i \in DOMAIN similarity :
        /\ Len(similarity[i]) = Len(similarity)
        /\ \A j \in DOMAIN similarity[i] : similarity[i][j] <= similarity[i][i]
\* no score in an earlier column of the selected row equals its diagonal
NoEarlierTie == \A j \in 0..(index - 1) : ScoreOf(j) < ScoreOf(index)
PresentOnce == Cardinality({i \in Rows(movies) : Cell(movies, i, "title") = selected_movie}) = 1
NoSelf ==
    \A n \in DOMAIN Names : Names[n] \in Titles(movies) /\ Names[n] # selected_movie

-----------------------------------------------------------------------------
(* C1 *)

-----------------------------------------------------------------------------
(* C2 *)

\* the rows in the order of their ranks, and those of the scanned ranks that
\* have an asset
RankedRows(scores) == [r \in 1..Len(scores) |-> RowAtRank(scores, r)]
ScannedWithAsset(scores) ==
    SelectSeq(SubSeq(RankedRows(scores), 2, Min(ScanLimit + 1, Len(scores))), HasAsset)

-----------------------------------------------------------------------------
(* C3 *)

\* C3: in every state the result has at most quota (9) and at most scan_limit
\* (29) entries, and a step of a running request only ever extends the two
\* result lists.
C3_BoundedAndNeverShrinks ==
    /\ [](Len(Names) <= Quota /\ Len(Names) <= ScanLimit /\ Len(Posters) = Len(Names))
    /\ [][pc = "loop" =>
            /\ IsPrefix(recommended_movie_names, recommended_movie_names')
            /\ IsPrefix(recommended_movie_posters, recommended_movie_posters')]_vars

\* a request that filled its quota after skipping a candidate
C3_Witness ==
    /\ pc = "returned" /\ Len(Names) = Quota /\ Len(requests) > Quota

-----------------------------------------------------------------------------
(* C4 *)

-----------------------------------------------------------------------------
(* C5 *)

\* C5: a request for a title no row has returns at once with an empty result
\* and the not-found message, no exception escapes and the provider is never
\* asked.
C5_NotFoundIsEmpty ==
    (InRequest /\ selected_movie \notin Titles(movies)) =>
        /\ pc = "returned"
        /\ Names = <<>> /\ Posters = <<>>
        /\ reported = NotFoundMessage
        /\ escaped = "none"
        /\ requests = <<>>

\* the not-found return on a catalog that has rows, after an earlier request
\* that did ask the provider
C5_Witness ==
    /\ pc = "returned" /\ selected_movie = Unknown
    /\ reported = NotFoundMessage
    /\ Len(movies.rows) > 0
    /\ first_call.movie \in Titles(movies) /\ first_call.names # <<>>

-----------------------------------------------------------------------------
(* C6 *)

\* the step asks the provider: the list of requests grows by one movie id
Asked == pc = "loop" /\ Len(requests') = Len(requests) + 1
LastAsked == tmdb[requests'[Len(requests')]]

-----------------------------------------------------------------------------
(* C7 *)

\* C7 as stated: once load_data has run, either the catalog has the three
\* required columns or the load ended with the error reported and the script
\* halted.
C7_Stated ==
    pc # "boot" =>
        \/ HasRequired(movies)
        \/ pc = "halted" /\ reported \in SchemaMessages

-----------------------------------------------------------------------------
(* C8 *)

\* C8 as stated: a request for a title of the catalog over a matrix whose size
\* differs from the catalog's reports the schema error, and no exception
\* escapes.
C8_Stated ==
    (pc \in {"returned", "failed"} /\ selected_movie \in Titles(movies)
            /\ Len(similarity) # Len(movies.rows)) =>
        reported \in SchemaMessages /\ escaped = "none"

-----------------------------------------------------------------------------
(* C9 *)

\* C9: an invocation with the selection of the first invocation that returned
\* builds the same result again, whatever was invoked in between: while it
\* runs its lists are prefixes of that result, and when it returns they equal
\* it; and no step of a request changes the catalog or the matrix.
C9_SameSelectionSameResult ==
    /\ []((pc \in {"loop", "returned"} /\ first_call # NoCall
                /\ selected_movie = first_call.movie) =>
            /\ IsPrefix(Names, first_call.names)
            /\ IsPrefix(Posters, first_call.posters)
            /\ pc = "returned" => Names = first_call.names /\ Posters = first_call.posters)
    /\ [][(pc \in {"idle", "loop", "returned", "failed"}) =>
            movies' = movies /\ similarity' = similarity]_vars

\* a later invocation with the first selection is under way and has rebuilt
\* the whole of a non-empty first result
C9_Witness ==
    /\ pc = "loop" /\ first_call # NoCall
    /\ selected_movie = first_call.movie
    /\ Names = first_call.names /\ Names # <<>>

-----------------------------------------------------------------------------
(* C10 *)

\* C10: the provider is asked for the candidates of ranks 2, 3, ... in that
\* order, each once and at most scan_limit (29) of them; no request is made
\* once the result holds quota (9) entries; every step of the loop moves to the
\* next candidate or ends the loop, which stays within the scanned ranks, so
\* the request ends after at most scan_limit steps, and a running loop can
\* always take its next step.
C10_SequentialBoundedCalls ==
    /\ []((InRequest /\ index >= 0 /\ index < Len(similarity)) =>
            /\ Len(requests) <= ScanLimit
            /\ \A n \in DOMAIN requests :
                RankOf(Scores, RowOfId(requests[n])) = n + 1
            /\ Cardinality(Range(requests)) = Len(requests))
    /\ [](pc = "loop" => k \in 1..(ScanLimit + 1) /\ Len(requests) = k - 1)
    /\ [](pc = "loop" => ENABLED (Step \/ Return))
    /\ [][Len(recommended_movie_names) >= Quota =>
            requests' = requests \/ requests' = <<>>]_vars
    /\ [][pc = "loop" => pc' # "loop" \/ k' = k + 1]_vars

\* a request over a catalog longer than the slice that skipped candidates and
\* stopped at its quota before the end of the slice
C10_Witness ==
    /\ pc = "returned" /\ Len(Names) = Quota
    /\ Len(requests) > Quota /\ Len(requests) < ScanLimit
    /\ Len(distances) > ScanLimit + 1

====
